---- MODULE Spec2Model ----
(***************************************************************************)
(* The test harness of Automatic_solver (src/test-harness.js) together     *)
(* with its two HTTP entry points (src/index.js): POST /test, which calls  *)
(* runTests and then generateDiffReport, and POST /test-cases, which calls *)
(* addTestCase.  Texts are sequences of one-character strings.  A handler  *)
(* runs from the event that starts it to the next point where it waits     *)
(* for the file system or for a child process: that is one action.         *)
(***************************************************************************)
EXTENDS Integers, Sequences, FiniteSets, TLC

\* ------------------------------------------------------------ bounds
\* longest stdout a child process writes, in characters
MaxOut == 2
\* most custom test cases a suite is grown to
MaxCustom == 2
\* calls in flight at the same time
MaxOverlap == 2
\* longest text handed to the comparison and to the diff on their own
MaxText == 3

\* ------------------------------------------------------------ values
\* characters a child process can print
Chars == {"a", " "}
\* what String.prototype.trim removes (the part of it the texts here use)
Whitespace == {" ", "\n"}
\* the JavaScript value undefined: a property the request body or the file lacks
Undefined == <<"undefined">>
\* the problems: "two-sum" was created, "ghost" never was
Problems == {"two-sum", "ghost"}
\* the switch of executeCode
Supported == {"javascript", "python", "java", "cpp"}
\* languages a request names; "ruby" stands for every unrecognised one
Languages == Supported \cup {"ruby"}
\* languages whose solution has to be built before it can run
Compiled == {"java", "cpp"}
\* concurrent requests of each kind
Runs == {1, 2}
Adders == {1, 2}
\* sampleInput / sampleOutput given to createProblem
SampleInputs == {<<>>, <<"1">>}
SampleExpecteds == {<<"a", " ">>}
\* the bodies of POST /test-cases: a usual one, and one with an empty input
\* that lacks expected
AddBodies ==
  { [input |-> <<"1">>, expected |-> <<"a", " ">>],
    [input |-> <<>>, expected |-> Undefined] }
\* exit codes the 'close' event carries; "null" is termination by a signal
ExitCodes == {"0", "1", "null"}

\* ------------------------------------------------------------ text helpers
\* a JavaScript value used as a condition: if (input), if (test.error), x || ''
Truthy(v) == v # Undefined /\ v # <<>>

RECURSIVE TrimStart(_)
TrimStart(s) ==
  IF s # <<>> /\ Head(s) \in Whitespace THEN TrimStart(Tail(s)) ELSE s

RECURSIVE TrimEnd(_)
TrimEnd(s) ==
  IF s # <<>> /\ s[Len(s)] \in Whitespace
  THEN TrimEnd(SubSeq(s, 1, Len(s) - 1))
  ELSE s

\* a trim that forgets the trailing whitespace
TrimStartOnly(s) == TrimStart(s)

\* String.prototype.trim
Trim(s) == TrimEnd(TrimStart(s))

\* a property read: a missing property reads as undefined
Get(obj, f) == IF f \in DOMAIN obj THEN obj[f] ELSE Undefined

\* JSON.stringify then JSON.parse of a test case: undefined properties are dropped
StoredCase(input, expected) ==
  LET full == [input |-> input, expected |-> expected]
      keep == {f \in {"input", "expected"} : full[f] # Undefined}
  IN  [f \in keep |-> full[f]]

\* ------------------------------------------------------------ comparison and diff
\* a variant of compareOutput that folds the letter case
compareOutputIgnoringCase(actual, expected) ==
  LET lower(s) == [i \in 1..Len(s) |-> IF s[i] = "A" THEN "a" ELSE s[i]]
  IN  lower(actual) = lower(expected)

compareOutput(actual, expected) == actual = expected

\* String.prototype.split('\n')
RECURSIVE Split(_)
Split(s) ==
  IF \E i \in 1..Len(s) : s[i] = "\n"
  THEN LET i == CHOOSE k \in 1..Len(s) :
                  s[k] = "\n" /\ \A j \in 1..(k - 1) : s[j] # "\n"
       IN  <<SubSeq(s, 1, i - 1)>> \o Split(SubSeq(s, i + 1, Len(s)))
  ELSE <<s>>

\* Array.prototype.join('\n')
RECURSIVE Join(_)
Join(lines) ==
  IF lines = <<>> THEN <<>>
  ELSE IF Len(lines) = 1 THEN lines[1]
  ELSE lines[1] \o <<"\n">> \o Join(Tail(lines))

\* lines[i] || ''  (i is the 1-based position of the 0-based index)
LineAt(lines, i) == IF i <= Len(lines) THEN lines[i] ELSE <<>>

\* a variant of Max that takes the smaller number
MaxTakesSmaller(a, b) == IF a <= b THEN a ELSE b

Max(a, b) == IF a >= b THEN a ELSE b

\* a variant of DiffFrom that puts the actual line before the expected one
RECURSIVE DiffFromActualFirst(_, _, _, _)
DiffFromActualFirst(expectedLines, actualLines, i, maxLines) ==
  IF i > maxLines THEN <<>>
  ELSE LET expectedLine == LineAt(expectedLines, i)
           actualLine == LineAt(actualLines, i)
       IN  (IF expectedLine = actualLine
            THEN << <<" ", " ">> \o expectedLine >>
            ELSE << <<"+", " ">> \o actualLine, <<"-", " ">> \o expectedLine >>)
           \o DiffFromActualFirst(expectedLines, actualLines, i + 1, maxLines)

\* a variant of DiffFrom that takes two empty lines for different ones
RECURSIVE DiffFromTruthyLines(_, _, _, _)
DiffFromTruthyLines(expectedLines, actualLines, i, maxLines) ==
  IF i > maxLines THEN <<>>
  ELSE LET expectedLine == LineAt(expectedLines, i)
           actualLine == LineAt(actualLines, i)
       IN  (IF expectedLine # <<>> /\ expectedLine = actualLine
            THEN << <<" ", " ">> \o expectedLine >>
            ELSE << <<"-", " ">> \o expectedLine, <<"+", " ">> \o actualLine >>)
           \o DiffFromTruthyLines(expectedLines, actualLines, i + 1, maxLines)

RECURSIVE DiffFrom(_, _, _, _)
DiffFrom(expectedLines, actualLines, i, maxLines) ==
  IF i > maxLines THEN <<>>
  ELSE LET expectedLine == LineAt(expectedLines, i)
           actualLine == LineAt(actualLines, i)
       IN  (IF expectedLine = actualLine
            THEN << <<" ", " ">> \o expectedLine >>
            ELSE << <<"-", " ">> \o expectedLine, <<"+", " ">> \o actualLine >>)
           \o DiffFrom(expectedLines, actualLines, i + 1, maxLines)

\* generateDiff for an expected that is a string (undefined.split throws)
generateDiff(expected, actual) ==
  LET expectedLines == Split(expected)
      actualLines == Split(actual)
  IN  Join(DiffFrom(expectedLines, actualLines, 1,
                    Max(Len(expectedLines), Len(actualLines))))


\* ------------------------------------------------------------ state
VARIABLES
  files,     \* workspace/<problemId>/test-cases.json of every problem
  run,       \* the POST /test requests: runTests, then generateDiffReport
  add,       \* the POST /test-cases requests: addTestCase
  appended,  \* history: the cases of the addTestCase calls that returned, in order
  calc       \* one call of compareOutput / generateDiff on given texts

vars == <<files, run, add, appended, calc>>

NoFile == [exists |-> FALSE]
EmptySuite == [sample |-> [input |-> <<>>, expected |-> <<>>], custom |-> <<>>]
NoResponse == [kind |-> "none"]
NoChild == [alive |-> FALSE, out |-> <<>>, stdinEnded |-> FALSE, timedOut |-> FALSE]

\* a request slot no handler is using
IdleRun ==
  [pc |-> "idle", problemId |-> "", language |-> "", builds |-> TRUE,
   testCases |-> EmptySuite, tests |-> <<>>,
   summary |-> [passed |-> 0, failed |-> 0, total |-> 0],
   child |-> NoChild, spawns |-> <<>>, response |-> NoResponse,
   late |-> 0]

\* no call of the comparison or of the diff on its own
NoCalc == [pc |-> "none", expected |-> <<>>, actual |-> <<>>, diff |-> <<>>,
           passed |-> FALSE]

IdleAdd ==
  [pc |-> "idle", problemId |-> "", input |-> <<>>, expected |-> <<>>,
   testCases |-> EmptySuite, response |-> NoResponse]

\* createProblem: the suite file of a new problem
CreatedSuite(sampleInput, sampleOutput) ==
  [sample |-> [input |-> sampleInput, expected |-> sampleOutput], custom |-> <<>>]

\* ------------------------------------------------------------ runSingleTest
ReadFailed == "Test execution failed: ENOENT"
\* JSON.parse on a file that is being rewritten: it was truncated and its new
\* content is not there yet
ParseFailed == "Test execution failed: Unexpected end of JSON input"
TypeErrorTrim == "Cannot read properties of undefined (reading 'trim')"
TypeErrorSplit == "Cannot read properties of undefined (reading 'split')"

\* the catch branch: executeCode rejected, or the try body threw
Rejected(testName, input, expected, message) ==
  [testName |-> testName, input |-> input, expected |-> expected,
   actual |-> <<>>, passed |-> FALSE, error |-> message]

\* the try body once executeCode has resolved with the collected stdout
Resolved(testName, input, expected, output) ==
  IF expected = Undefined
  THEN Rejected(testName, input, expected, TypeErrorTrim)
  ELSE [testName |-> testName, input |-> input, expected |-> expected,
        actual |-> Trim(output),
        passed |-> compareOutput(Trim(output), Trim(expected))]

\* ------------------------------------------------------------ executeCode
\* the command the switch selects; the java and cpp branches only run
Command(language) ==
  CASE language = "javascript" -> "node"
    [] language = "python" -> "python"
    [] language = "java" -> "java"
    [] language = "cpp" -> "solution"

\* spawn(command, args, {cwd: path.dirname(solutionFile)}), then the stdin write
Spawned(input) ==
  [alive |-> TRUE, out |-> <<>>, stdinEnded |-> Truthy(input), timedOut |-> FALSE]

SpawnEntry(language, problemId) ==
  [command |-> Command(language), cwd |-> problemId]

\* ------------------------------------------------------------ generateDiffReport
HasError(test) == "error" \in DOMAIN test /\ test.error # ""

\* generateDiff throws on an expected that is undefined
DiffThrows(test) == ~test.passed /\ test.expected = Undefined

Detail(test) ==
  LET detail == [testName |-> test.testName, passed |-> test.passed,
                 input |-> test.input, expected |-> test.expected,
                 actual |-> test.actual]
      withDiff == IF ~test.passed
                  THEN detail @@ [diff |-> generateDiff(test.expected, test.actual)]
                  ELSE detail
  IN  IF HasError(test) THEN withDiff @@ [error |-> test.error] ELSE withDiff

generateDiffReport(problemId, summary, tests) ==
  [kind |-> "report", problemId |-> problemId, summary |-> summary,
   details |-> [i \in 1..Len(tests) |-> Detail(tests[i])]]

\* the route handler after runTests returned: res.json(report), or the catch
Respond(rec) ==
  [rec EXCEPT
     !.pc = "done",
     !.child = NoChild,
     !.response =
        IF \E i \in 1..Len(rec.tests) : DiffThrows(rec.tests[i])
        THEN [kind |-> "error", error |-> TypeErrorSplit]
        ELSE generateDiffReport(rec.problemId, rec.summary, rec.tests)]

\* ------------------------------------------------------------ runTests
CustomName(i) == "custom-" \o ToString(i)

\* a loop that names the custom tests from 1
TestPlanNamedFromOne(testCases) ==
  (IF Truthy(Get(testCases.sample, "input"))
   THEN << [testName |-> "sample",
            input |-> Get(testCases.sample, "input"),
            expected |-> Get(testCases.sample, "expected")] >>
   ELSE <<>>)
  \o [i \in 1..Len(testCases.custom) |->
        [testName |-> CustomName(i),
         input |-> Get(testCases.custom[i], "input"),
         expected |-> Get(testCases.custom[i], "expected")]]

\* the tests runTests runs, in order: the sample if its input is truthy, then
\* custom[0], custom[1], ...
TestPlan(testCases) ==
  (IF Truthy(Get(testCases.sample, "input"))
   THEN << [testName |-> "sample",
            input |-> Get(testCases.sample, "input"),
            expected |-> Get(testCases.sample, "expected")] >>
   ELSE <<>>)
  \o [i \in 1..Len(testCases.custom) |->
        [testName |-> CustomName(i - 1),
         input |-> Get(testCases.custom[i], "input"),
         expected |-> Get(testCases.custom[i], "expected")]]

\* a push that counts every test as passed
PushCountsPassedOnly(rec, result) ==
  [rec EXCEPT
     !.tests = Append(@, result),
     !.summary = [total |-> @.total + 1,
                  passed |-> @.passed + 1,
                  failed |-> @.failed]]

\* results.tests.push(result); total++; passed++ or failed++
Push(rec, result) ==
  [rec EXCEPT
     !.tests = Append(@, result),
     !.summary = [total |-> @.total + 1,
                  passed |-> @.passed + (IF result.passed THEN 1 ELSE 0),
                  failed |-> @.failed + (IF result.passed THEN 0 ELSE 1)]]

\* a variant of Continue that starts the child of the following test as well
RECURSIVE ContinueSpawnsAhead(_)
ContinueSpawnsAhead(rec) ==
  LET plan == TestPlan(rec.testCases)
      k == Len(rec.tests) + 1
  IN  IF k > Len(plan) THEN Respond(rec)
      ELSE IF rec.language \notin Supported
      THEN ContinueSpawnsAhead(Push(rec, Rejected(plan[k].testName, plan[k].input,
                                                   plan[k].expected,
                                                   "Unsupported language: " \o rec.language)))
      ELSE [rec EXCEPT
              !.pc = "waiting",
              !.child = Spawned(plan[k].input),
              !.spawns = @ \o (IF k < Len(plan) /\ Len(@) < k
                               THEN <<SpawnEntry(rec.language, rec.problemId),
                                      SpawnEntry(rec.language, rec.problemId)>>
                               ELSE <<SpawnEntry(rec.language, rec.problemId)>>)]

\* runTests from the test after the last recorded one up to the next wait:
\* an unsupported language rejects at once, a supported one spawns a child
RECURSIVE Continue(_)
Continue(rec) ==
  LET plan == TestPlan(rec.testCases)
      k == Len(rec.tests) + 1
  IN  IF k > Len(plan) THEN Respond(rec)
      ELSE IF rec.language \notin Supported
      THEN \* (the set binds the record after the push, so that it is computed once)
           CHOOSE out \in
             {Continue(next) :
                next \in {Push(rec, Rejected(plan[k].testName, plan[k].input,
                                             plan[k].expected,
                                             "Unsupported language: " \o rec.language))}} :
             TRUE
      ELSE [rec EXCEPT
              !.pc = "waiting",
              !.child = Spawned(plan[k].input),
              !.spawns = Append(@, SpawnEntry(rec.language, rec.problemId))]

\* the test whose child process is in flight
Current(rec) == TestPlan(rec.testCases)[Len(rec.tests) + 1]

\* ------------------------------------------------------------ actions of POST /test
\* no call is in flight: the caller awaits each call before the next
Quiet == (\A r \in Runs : run[r].pc = "idle") /\ (\A a \in Adders : add[a].pc = "idle")

\* runTests(problemId, language) up to await fs.readFile
StartRun(r, p, language, builds) ==
  /\ run[r].pc = "idle"
  /\ run' = [run EXCEPT ![r] = [IdleRun EXCEPT !.pc = "reading", !.problemId = p,
                                               !.language = language,
                                               !.builds = builds]]
  /\ UNCHANGED <<files, add, appended, calc>>

\* a variant of Loaded that takes a missing file for an empty suite
LoadedOrEmpty(rec, file) ==
  Continue([rec EXCEPT !.testCases = IF file.exists THEN file.suite ELSE EmptySuite])

\* a variant of Loaded that takes what a truncated file holds for the suite
LoadedTorn(rec, file) ==
  IF ~file.exists
  THEN [rec EXCEPT !.pc = "done",
                   !.response = [kind |-> "error", error |-> ReadFailed]]
  ELSE Continue([rec EXCEPT !.testCases =
                   IF file.torn THEN [file.suite EXCEPT !.custom = <<>>]
                   ELSE file.suite])

\* runTests after fs.readFile: ENOENT is rethrown as "Test execution failed" and
\* the route answers 400; otherwise the parsed suite is run from its first test
Loaded(rec, file) ==
  IF ~file.exists
  THEN [rec EXCEPT !.pc = "done",
                   !.response = [kind |-> "error", error |-> ReadFailed]]
  ELSE IF file.torn
  THEN [rec EXCEPT !.pc = "done",
                   !.response = [kind |-> "error", error |-> ParseFailed]]
  ELSE Continue([rec EXCEPT !.testCases = file.suite])

\* a variant of ReadDone that writes the suite back without its custom cases
ReadDoneTouchesStore(r) ==
  /\ run[r].pc = "reading"
  /\ run' = [run EXCEPT ![r] = Loaded(@, files[run[r].problemId])]
  /\ files' = [files EXCEPT ![run[r].problemId] =
                 IF @.exists
                 THEN [@ EXCEPT !.suite.custom = <<>>]
                 ELSE @]
  /\ UNCHANGED <<add, appended, calc>>

\* fs.readFile completes: ENOENT throws; otherwise the first test starts
ReadDone(r) ==
  /\ run[r].pc = "reading"
  /\ run' = [run EXCEPT ![r] = Loaded(@, files[run[r].problemId])]
  /\ UNCHANGED <<files, add, appended, calc>>

\* a solution that does not build has no build artifact: "java solution" finds no
\* class and exits with 1, and the executable of a cpp solution cannot be spawned
CanRun(rec) == rec.builds
CanExit(rec, code) == rec.builds \/ (rec.language = "java" /\ code = "1")
CanFailToStart(rec) == rec.builds \/ rec.language = "cpp"

\* child.stdout 'data': output += data
ChildData(r, c) ==
  /\ run[r].pc = "waiting"
  /\ CanRun(run[r])
  /\ Len(run[r].child.out) < MaxOut
  /\ run' = [run EXCEPT ![r].child.out = Append(@, c)]
  /\ UNCHANGED <<files, add, appended, calc>>

\* a variant of Closed that keeps the collected stdout of a failed child
ClosedKeepsOutput(t, code, output) ==
  IF code # "0"
  THEN [Rejected(t.testName, t.input, t.expected,
                 "Execution failed with code " \o code) EXCEPT !.actual = Trim(output)]
  ELSE Resolved(t.testName, t.input, t.expected, output)

\* a variant of Closed that looks at the collected stdout only
ClosedIgnoresCode(t, code, output) ==
  Resolved(t.testName, t.input, t.expected, output)

\* the outcome of test t once its child closed: code !== 0 rejects (a child
\* killed by a signal closes with code null), code 0 resolves with the stdout
Closed(t, code, output) ==
  IF code # "0"
  THEN Rejected(t.testName, t.input, t.expected,
                "Execution failed with code " \o code)
  ELSE Resolved(t.testName, t.input, t.expected, output)

\* child 'close': reject on a code other than 0, else resolve(output); then
\* runSingleTest returns its outcome and runTests goes on
ChildClose(r, code) ==
  /\ run[r].pc = "waiting"
  /\ CanExit(run[r], code)
  /\ run' = [run EXCEPT ![r] =
                Continue(Push(@, Closed(Current(run[r]), code, run[r].child.out)))]
  /\ UNCHANGED <<files, add, appended, calc>>

\* a variant of ChildError in which the failed start fails the whole call
ChildErrorAbortsRun(r) ==
  /\ run[r].pc = "waiting"
  /\ CanFailToStart(run[r])
  /\ run[r].child.out = <<>>
  /\ run' = [run EXCEPT ![r].pc = "done",
                        ![r].child = NoChild,
                        ![r].late = @ + 1,
                        ![r].response = [kind |-> "error",
                                         error |-> "Failed to start process: ENOENT"]]
  /\ UNCHANGED <<files, add, appended, calc>>

\* child 'error': the process could not be started; its 'close' is still to come
ChildError(r) ==
  /\ run[r].pc = "waiting"
  /\ CanFailToStart(run[r])
  /\ run[r].child.out = <<>>
  /\ LET t == Current(run[r])
         result == Rejected(t.testName, t.input, t.expected,
                            "Failed to start process: ENOENT")
     IN  run' = [run EXCEPT ![r] = Continue(Push([@ EXCEPT !.late = @ + 1], result))]
  /\ UNCHANGED <<files, add, appended, calc>>

\* a variant of RejectAgain in which the second rejection counts as an outcome
RejectAgainRecords(rec) ==
  Push([rec EXCEPT !.late = @ - 1],
       Rejected("late", <<>>, <<>>, "Execution failed with code -2"))

\* reject(...) on the promise of an execution that is already rejected: a
\* promise settles once, the call has no effect
RejectAgain(rec) == [rec EXCEPT !.late = @ - 1]

\* 'close' of a child that could not be started: it comes after the child's
\* 'error' with a code other than 0, and its handler rejects again
LateClose(r) ==
  /\ run[r].late > 0
  /\ run' = [run EXCEPT ![r] = RejectAgain(@)]
  /\ UNCHANGED <<files, add, appended, calc>>

\* the wall clock passes the time limit of a test; executeCode arms no timer,
\* so nothing else happens
TimeoutElapses(r) ==
  /\ run[r].pc = "waiting"
  /\ ~run[r].child.timedOut
  /\ run' = [run EXCEPT ![r].child.timedOut = TRUE]
  /\ UNCHANGED <<files, add, appended, calc>>

\* the response has been sent; the slot is free again
CollectRun(r) ==
  /\ run[r].pc = "done"
  /\ run' = [run EXCEPT ![r] = IdleRun]
  /\ UNCHANGED <<files, add, appended, calc>>

\* ------------------------------------------------------------ actions of POST /test-cases
\* JSON.stringify(testCases) as JSON.parse reads it back
Stringify(testCases) ==
  [sample |-> testCases.sample,
   custom |-> [i \in 1..Len(testCases.custom) |->
                 StoredCase(Get(testCases.custom[i], "input"),
                            Get(testCases.custom[i], "expected"))]]

\* a variant of Pushed that puts the new case in front
PushedInFront(testCases, input, expected) ==
  [testCases EXCEPT !.custom = <<[input |-> input, expected |-> expected]>> \o @]

\* testCases.custom.push({ input, expected }) on the parsed suite
Pushed(testCases, input, expected) ==
  [testCases EXCEPT !.custom = Append(@, [input |-> input, expected |-> expected])]

\* addTestCase(problemId, input, expected) up to await fs.readFile
StartAdd(a, p, input, expected) ==
  /\ add[a].pc = "idle"
  /\ files[p].exists => Len(files[p].suite.custom) < MaxCustom
  /\ add' = [add EXCEPT ![a] = [IdleAdd EXCEPT !.pc = "reading", !.problemId = p,
                                               !.input = input,
                                               !.expected = expected]]
  /\ UNCHANGED <<files, run, appended, calc>>

\* a variant of Parsed that starts a new suite when the file is missing
ParsedOrCreated(rec, file) ==
  [rec EXCEPT !.pc = "opening",
              !.testCases = Pushed(IF file.exists THEN file.suite ELSE EmptySuite,
                                   rec.input, rec.expected)]

\* addTestCase after fs.readFile: ENOENT is rethrown as "Failed to add test
\* case" and the route answers 400; otherwise the case is pushed on the parsed
\* suite and the write starts
Parsed(rec, file) ==
  IF ~file.exists
  THEN [rec EXCEPT !.pc = "done",
                   !.response = [kind |-> "error",
                                 error |-> "Failed to add test case: ENOENT"]]
  ELSE IF file.torn
  THEN [rec EXCEPT !.pc = "done",
                   !.response =
                      [kind |-> "error",
                       error |-> "Failed to add test case: Unexpected end of JSON input"]]
  ELSE [rec EXCEPT !.pc = "opening",
                   !.testCases = Pushed(file.suite, rec.input, rec.expected)]

\* fs.readFile completes: ENOENT throws; otherwise push and start fs.writeFile
AddRead(a) ==
  /\ add[a].pc = "reading"
  /\ add' = [add EXCEPT ![a] = Parsed(@, files[add[a].problemId])]
  /\ UNCHANGED <<files, run, appended, calc>>

\* fs.writeFile opens the file for writing, which truncates it: until the new
\* content is written a reader finds no complete suite (suite keeps the content
\* the file had)
AddOpen(a) ==
  /\ add[a].pc = "opening"
  /\ add' = [add EXCEPT ![a].pc = "writing"]
  /\ files' = [files EXCEPT ![add[a].problemId].torn = TRUE]
  /\ UNCHANGED <<run, appended, calc>>

\* fs.writeFile completes; addTestCase returns testCases
AddWrite(a) ==
  /\ add[a].pc = "writing"
  /\ files' = [files EXCEPT ![add[a].problemId] =
                 [exists |-> TRUE, suite |-> Stringify(add[a].testCases),
                  torn |-> FALSE]]
  /\ add' = [add EXCEPT ![a].pc = "done",
                        ![a].response = [kind |-> "suite", suite |-> add[a].testCases]]
  /\ appended' = [appended EXCEPT ![add[a].problemId] =
                    Append(@, [input |-> add[a].input, expected |-> add[a].expected])]
  /\ UNCHANGED <<run, calc>>

CollectAdd(a) ==
  /\ add[a].pc = "done"
  /\ add' = [add EXCEPT ![a] = IdleAdd]
  /\ UNCHANGED <<files, run, appended, calc>>

\* ------------------------------------------------------------ specification
\* "two-sum" exists with the suite createProblem wrote; no request is in flight
Init ==
  /\ \E si \in SampleInputs, se \in SampleExpecteds :
       files = [p \in Problems |->
                  IF p = "two-sum"
                  THEN [exists |-> TRUE, suite |-> CreatedSuite(si, se), torn |-> FALSE]
                  ELSE NoFile]
  /\ run = [r \in Runs |-> IdleRun]
  /\ add = [a \in Adders |-> IdleAdd]
  /\ appended = [p \in Problems |-> <<>>]
  /\ calc = NoCalc

\* a caller that awaits every call before it makes the next one
Next ==
  \/ \E p \in Problems, l \in Languages, b \in BOOLEAN :
       Quiet /\ (b \/ l \in Compiled) /\ StartRun(1, p, l, b)
  \/ \E r \in Runs : ReadDone(r)
  \/ \E r \in Runs, c \in Chars : ChildData(r, c)
  \/ \E r \in Runs, code \in ExitCodes : ChildClose(r, code)
  \/ \E r \in Runs : ChildError(r)
  \/ \E r \in Runs : LateClose(r)
  \/ \E r \in Runs : TimeoutElapses(r)
  \/ \E r \in Runs : CollectRun(r)
  \/ \E p \in Problems, b \in AddBodies :
       Quiet /\ StartAdd(1, p, b.input, b.expected)
  \/ \E a \in Adders : AddRead(a)
  \/ \E a \in Adders : AddOpen(a)
  \/ \E a \in Adders : AddWrite(a)
  \/ \E a \in Adders : CollectAdd(a)

Spec == Init /\ [][Next]_vars

\* The handlers run when their event arrives, and a read or a write of the suite
\* file completes.  Nothing makes a child process exit, and executeCode arms no
\* timer: the child's events carry no fairness.
FairSpec ==
  /\ Spec
  /\ \A r \in Runs : WF_vars(ReadDone(r)) /\ WF_vars(CollectRun(r))
  /\ \A a \in Adders : WF_vars(AddRead(a)) /\ WF_vars(AddOpen(a)) /\ WF_vars(AddWrite(a)) /\ WF_vars(CollectAdd(a))

\* ------------------------------------------------------------ comparison and diff on their own
\* the characters of the texts: a letter in both cases, a blank, a line break
TextChars == {"a", "A", " ", "\n"}

Texts == UNION {[1..n -> TextChars] : n \in 0..MaxText}

\* an expected text and an output are given; nothing else is going on
TextInit ==
  /\ files = [p \in Problems |-> NoFile]
  /\ run = [r \in Runs |-> IdleRun]
  /\ add = [a \in Adders |-> IdleAdd]
  /\ appended = [p \in Problems |-> <<>>]
  /\ \E e \in Texts, a \in Texts :
       calc = [NoCalc EXCEPT !.pc = "ready", !.expected = e, !.actual = a]

\* runSingleTest's verdict on an output: compareOutput(output.trim(), expected.trim())
CallCompare ==
  /\ calc.pc = "ready"
  /\ calc' = [calc EXCEPT !.pc = "compared",
                          !.passed = compareOutput(Trim(calc.actual),
                                                   Trim(calc.expected))]
  /\ UNCHANGED <<files, run, add, appended>>

\* generateDiff(expected, actual)
CallDiff ==
  /\ calc.pc = "ready"
  /\ calc' = [calc EXCEPT !.pc = "diffed",
                          !.diff = generateDiff(calc.expected, calc.actual)]
  /\ UNCHANGED <<files, run, add, appended>>

\* generateDiffReport on the outcome of a failed comparison: the diff of the
\* stored expected text and the trimmed output
CallDetail ==
  /\ calc.pc = "compared"
  /\ ~calc.passed
  /\ calc' = [calc EXCEPT !.pc = "detailed",
                          !.diff = generateDiff(calc.expected, Trim(calc.actual))]
  /\ UNCHANGED <<files, run, add, appended>>

TextNext == CallCompare \/ CallDiff \/ CallDetail

TextSpec == TextInit /\ [][TextNext]_vars

\* ------------------------------------------------------------ overlapping calls
\* express serves a request while another awaits its file or its child: the
\* calls in flight at one moment
InFlight ==
  Cardinality({r \in Runs : run[r].pc # "idle"})
    + Cardinality({a \in Adders : add[a].pc # "idle"})

\* the lowest free slot takes the next request
FreeRun(r) == run[r].pc = "idle" /\ \A q \in Runs : q < r => run[q].pc # "idle"
FreeAdd(a) == add[a].pc = "idle" /\ \A q \in Adders : q < a => add[q].pc # "idle"

\* the language of a request that names none
DefaultLanguage == "javascript"

\* requests arrive while others are in flight, up to MaxOverlap at a time; the
\* runs here use the default language and their children only exit, with code
\* 0 or 1 and without output
ConcNext ==
  \/ \E r \in Runs, p \in Problems :
       /\ InFlight < MaxOverlap
       /\ FreeRun(r)
       /\ StartRun(r, p, DefaultLanguage, TRUE)
  \/ \E r \in Runs : ReadDone(r)
  \/ \E r \in Runs, code \in {"0", "1"} : ChildClose(r, code)
  \/ \E r \in Runs : CollectRun(r)
  \/ \E a \in Adders, p \in Problems, b \in AddBodies :
       /\ InFlight < MaxOverlap
       /\ FreeAdd(a)
       /\ StartAdd(a, p, b.input, b.expected)
  \/ \E a \in Adders : AddRead(a)
  \/ \E a \in Adders : AddOpen(a)
  \/ \E a \in Adders : AddWrite(a)
  \/ \E a \in Adders : CollectAdd(a)

ConcSpec == Init /\ [][ConcNext]_vars

\* one run while test cases are being added one after the other: a request
\* to run and a request to add may each arrive while the other is in flight
SnapNext ==
  \/ \E p \in Problems : StartRun(1, p, DefaultLanguage, TRUE)
  \/ \E r \in Runs : ReadDone(r)
  \/ \E r \in Runs, code \in {"0", "1"} : ChildClose(r, code)
  \/ \E r \in Runs : CollectRun(r)
  \/ \E p \in Problems, b \in AddBodies : StartAdd(1, p, b.input, b.expected)
  \/ \E a \in Adders : AddRead(a)
  \/ \E a \in Adders : AddOpen(a)
  \/ \E a \in Adders : AddWrite(a)
  \/ \E a \in Adders : CollectAdd(a)

SnapSpec == Init /\ [][SnapNext]_vars

\* ------------------------------------------------------------ claims
\* runTests returned its results (the read of the suite did not throw)
Returned(rec) ==
  /\ rec.pc = "done"
  /\ ~(rec.response.kind = "error" /\ rec.response.error \in {ReadFailed, ParseFailed})

\* the step records the outcome of the test whose child was in flight
Settles(r) ==
  run[r].pc = "waiting" /\ Len(run'[r].tests) > Len(run[r].tests)

Settled(r) == run'[r].tests[Len(run[r].tests) + 1]

\* the step ends the wait for the child in flight: the call returns or the
\* next child is spawned
Ends(r) ==
  /\ run[r].pc = "waiting"
  /\ run'[r].pc # "waiting" \/ Len(run'[r].spawns) # Len(run[r].spawns)

\* the text without its leading and trailing whitespace, said without recursion
Stripped(s) ==
  LET inked == {i \in 1..Len(s) : s[i] \notin Whitespace}
  IN  IF inked = {} THEN <<>>
      ELSE SubSeq(s, CHOOSE i \in inked : \A j \in inked : i <= j,
                     CHOOSE i \in inked : \A j \in inked : i >= j)

\* C1: in every report summary.total is the number of details, passed + failed
\* is total, and passed is the number of details whose passed is true.
C1_SummaryCountsDetails ==
  \A r \in Runs :
    run[r].response.kind = "report" =>
      LET summary == run[r].response.summary
          details == run[r].response.details
      IN  /\ summary.total = Len(details)
          /\ summary.passed + summary.failed = summary.total
          /\ summary.passed = Cardinality({i \in 1..Len(details) : details[i].passed})

\* a report of three details of which some passed and some failed
C1_Witness ==
  \E r \in Runs :
    /\ run[r].response.kind = "report"
    /\ Len(run[r].response.details) = 3
    /\ run[r].response.summary.passed >= 1
    /\ run[r].response.summary.failed >= 1

\* the names runTests gives the custom tests, written out
CustomNames == <<"custom-0", "custom-1", "custom-2", "custom-3">>

\* C2: after k successful addTestCase calls, each awaited, on a problem created
\* with no custom case, the results of a following runTests hold k + (1 if
\* sample.input is non-empty) outcomes: "sample" first if present, then custom-0
\* .. custom-(k-1), custom-i with the input and expected of the i-th call.
C2_AppendedCasesRunInOrder ==
  \A r \in Runs :
    Returned(run[r]) =>
      LET p == run[r].problemId
          k == Len(appended[p])
          s == IF files[p].suite.sample.input # <<>> THEN 1 ELSE 0
          tests == run[r].tests
      IN  /\ Len(tests) = k + s
          /\ s = 1 => tests[1].testName = "sample"
          /\ \A i \in 0..(k - 1) :
               /\ tests[s + i + 1].testName = CustomNames[i + 1]
               /\ tests[s + i + 1].input = appended[p][i + 1].input
               /\ tests[s + i + 1].expected = appended[p][i + 1].expected

\* runTests returned after two different cases were appended to a suite whose
\* sample has an input
C2_Witness ==
  \E r \in Runs :
    /\ Returned(run[r])
    /\ Len(appended[run[r].problemId]) = 2
    /\ appended[run[r].problemId][1] # appended[run[r].problemId][2]
    /\ Len(run[r].tests) = 3

\* C3: every outcome of a report that has error set has passed = false and no
\* diff.
C3_ErrorOutcomeFailedWithoutDiff ==
  \A r \in Runs :
    run[r].response.kind = "report" =>
      \A i \in 1..Len(run[r].response.details) :
        LET d == run[r].response.details[i]
        IN  "error" \in DOMAIN d => (~d.passed /\ "diff" \notin DOMAIN d)

\* C4: an outcome with no error has passed true exactly when the stdout of its
\* process and its stored expected are equal once the leading and trailing
\* whitespace of each is removed; so passed is compare(expected, actual).
C4_PassedIffTrimmedEqual ==
  /\ [](\A r \in Runs : \A i \in 1..Len(run[r].tests) :
          LET t == run[r].tests[i]
          IN  "error" \notin DOMAIN t =>
                (t.passed <=> Stripped(t.actual) = Stripped(t.expected)))
  /\ [][\A r \in Runs :
          (Settles(r) /\ "error" \notin DOMAIN Settled(r)) =>
             /\ Settled(r).passed <=>
                  Stripped(run[r].child.out) = Stripped(Settled(r).expected)
             /\ Settled(r).actual = Stripped(run[r].child.out)]_vars

\* an outcome passed although its expected differs from its actual: the
\* trimming decided; another one failed on its trimmed texts
C4_Witness ==
  \E r \in Runs : \E i, j \in 1..Len(run[r].tests) :
    /\ "error" \notin DOMAIN run[r].tests[i]
    /\ run[r].tests[i].passed
    /\ run[r].tests[i].actual # run[r].tests[i].expected
    /\ "error" \notin DOMAIN run[r].tests[j]
    /\ ~run[r].tests[j].passed

\* C5: an outcome of a report carries a diff if and only if its passed is false
\* and no error occurred for that test.
C5_DiffIffFailedWithoutError ==
  \A r \in Runs :
    run[r].response.kind = "report" =>
      \A i \in 1..Len(run[r].response.details) :
        LET d == run[r].response.details[i]
        IN  "diff" \in DOMAIN d <=> (~d.passed /\ "error" \notin DOMAIN d)

\* C6: runTests for java or cpp on a solution that does not build returns a
\* report of the one outcome "compile", passed = false, error set, summary
\* {0, 1, 1}, and runs no test case process.
C6_BuildFailureYieldsCompileOutcome ==
  \A r \in Runs :
    (Returned(run[r]) /\ run[r].language \in Compiled /\ ~run[r].builds) =>
      /\ run[r].response.kind = "report"
      /\ run[r].response.summary = [passed |-> 0, failed |-> 1, total |-> 1]
      /\ Len(run[r].response.details) = 1
      /\ run[r].response.details[1].testName = "compile"
      /\ ~run[r].response.details[1].passed
      /\ "error" \in DOMAIN run[r].response.details[1]
      /\ run[r].spawns = <<>>

\* the commands that build a solution
CompilerCommands == {"javac", "g++"}

\* C7: a runTests for java or cpp invokes the compiler exactly once, before
\* the first test case process is spawned; it is never skipped.
C7_CompilesOnceBeforeTests ==
  \A r \in Runs :
    (run[r].language \in Compiled /\ (run[r].pc = "waiting" \/ Returned(run[r]))) =>
      /\ Cardinality({i \in 1..Len(run[r].spawns) :
                        run[r].spawns[i].command \in CompilerCommands}) = 1
      /\ run[r].spawns[1].command \in CompilerCommands

\* C8: a test whose child is still running when the time limit elapses gets an
\* outcome with passed = false; nothing the child does later makes it pass.
\* (The claim also asks for a timeout error on that outcome; no outcome has one.)
C8_TimedOutNeverPasses ==
  [][\A r \in Runs :
       (Settles(r) /\ run[r].child.timedOut) => ~Settled(r).passed]_vars

\* C9: every runTests invocation eventually completes, whatever its child
\* processes do.
C9_RunCompletes ==
  \A r \in Runs : (run[r].pc \in {"reading", "waiting"}) ~> (run[r].pc = "done")

\* C10: runTests with a language outside the four supported ones fails the
\* call with UnsupportedLanguage before it runs any test; it returns no report.
C10_UnsupportedLanguageFailsCall ==
  \A r \in Runs :
    (Returned(run[r]) /\ run[r].language \notin Supported) =>
      /\ run[r].response.kind = "error"
      /\ run[r].response.error = "Unsupported language: " \o run[r].language
      /\ run[r].tests = <<>>

\* C11: runTests on a problem whose test-cases.json does not exist fails the whole
\* call: the caller gets an error and no report, no test was run, no child process
\* was spawned, and the read that failed left the store as it was (the suite
\* still does not exist).
C11_MissingSuiteFailsCall ==
  /\ [](\A r \in Runs :
         (run[r].pc \in {"waiting", "done"} /\ ~files[run[r].problemId].exists)
           => /\ run[r].pc = "done"
              /\ run[r].response = [kind |-> "error", error |-> ReadFailed]
              /\ run[r].tests = <<>>
              /\ run[r].spawns = <<>>)
  /\ [][\A r \in Runs :
         (run[r].pc = "reading" /\ ~files[run[r].problemId].exists
            /\ run'[r] # run[r])
           => files' = files]_vars

C11_Witness ==
  \E r \in Runs :
    /\ run[r].pc = "done"
    /\ run[r].problemId = "ghost"
    /\ ~files["ghost"].exists
    /\ run[r].response = [kind |-> "error", error |-> ReadFailed]
    /\ run[r].spawns = <<>>

\* C12: a failure confined to one test case (the child cannot be started, exits
\* with a code other than 0, prints the wrong text, or the stored case lacks its
\* input or expected field) aborts neither the run nor the report: once the suite
\* was read, every test of it is executed and the caller receives a report with
\* one detail per test case.
C12_TestFailureKeepsReport ==
  \A r \in Runs :
    (Returned(run[r]) /\ run[r].language \in Supported)
      => /\ Len(run[r].tests) = Len(TestPlan(run[r].testCases))
         /\ run[r].response.kind = "report"
         /\ Len(run[r].response.details) = Len(TestPlan(run[r].testCases))

\* C13: a child process that exits with a code other than 0, or is killed by a
\* signal (no exit code), gives an outcome with passed == false and error set,
\* whatever it printed: also when its stdout, trimmed, equals the trimmed
\* expected text.
\* (written contrapositively: a step either records a failed outcome with an
\* error, or it is not such an exit)
C13_NonzeroExitFailsWithError ==
  [][\A r \in Runs :
       \/ /\ Len(run'[r].tests) = Len(run[r].tests) + 1
          /\ ~Settled(r).passed
          /\ HasError(Settled(r))
       \/ \A code \in ExitCodes \ {"0"} : ~(Ends(r) /\ ChildClose(r, code))]_vars

\* the child has printed the expected text and is about to exit with code 1
C13_Witness ==
  \E r \in Runs :
    /\ run[r].pc = "waiting"
    /\ Current(run[r]).expected # Undefined
    /\ run[r].child.out # <<>>
    /\ Stripped(run[r].child.out) = Stripped(Current(run[r]).expected)
    /\ ENABLED ChildClose(r, "1")
    /\ ENABLED ChildClose(r, "null")

\* C14: a successful addTestCase(p, input, expected) on a suite with n custom
\* cases persists, and returns, a suite whose custom list has n + 1 entries: the
\* first n are the earlier ones, unchanged and in order, the last one is
\* {input, expected}, and sample is unchanged.
C14_AddAppendsOneCase ==
  [][\A a \in Adders :
       (add[a].pc = "writing" /\ add'[a].pc = "done")
         => LET p == add[a].problemId
                old == files[p].suite
                n == Len(old.custom)
            IN  /\ add'[a].response.kind = "suite"
                /\ files'[p].exists
                /\ \A s \in {files'[p].suite, add'[a].response.suite} :
                     /\ Len(s.custom) = n + 1
                     /\ \A i \in 1..n : s.custom[i] = old.custom[i]
                     /\ Get(s.custom[n + 1], "input") = add[a].input
                     /\ Get(s.custom[n + 1], "expected") = add[a].expected
                     /\ s.sample = old.sample]_vars

\* a second case was appended behind a different first one
C14_Witness ==
  \E a \in Adders :
    /\ add[a].pc = "done"
    /\ add[a].response.kind = "suite"
    /\ Len(add[a].response.suite.custom) = 2
    /\ Len(files[add[a].problemId].suite.custom) = 2
    /\ files[add[a].problemId].suite.custom[1] # files[add[a].problemId].suite.custom[2]
    /\ Get(files[add[a].problemId].suite.custom[2], "input") = add[a].input

\* C15: addTestCase with an empty or missing input, or an empty or missing
\* expected, fails and leaves the persisted suite unchanged: no stored custom
\* case ever has an empty or missing input or expected, and no such call is
\* answered with the suite.
C15_NoEmptyCaseStored ==
  /\ \A p \in Problems :
       files[p].exists
         => \A i \in 1..Len(files[p].suite.custom) :
              /\ Truthy(Get(files[p].suite.custom[i], "input"))
              /\ Truthy(Get(files[p].suite.custom[i], "expected"))
  /\ \A a \in Adders :
       (add[a].pc = "done" /\ ~(Truthy(add[a].input) /\ Truthy(add[a].expected)))
         => add[a].response.kind = "error"

\* C16: whatever the interleaving of two or more successful addTestCase calls on
\* one problem, once they have returned the persisted custom list holds every
\* case that was appended: as many entries as calls succeeded, none lost.
C16_NoLostAppend ==
  (\A a \in Adders : add[a].pc \in {"idle", "done"})
    => \A p \in Problems :
         files[p].exists
           => /\ Len(files[p].suite.custom) = Len(appended[p])
              /\ \A i \in 1..Len(appended[p]) :
                   \E j \in 1..Len(files[p].suite.custom) :
                     files[p].suite.custom[j]
                       = StoredCase(appended[p][i].input, appended[p][i].expected)

\* C17: in every step of every interleaving of addTestCase and runTests calls,
\* a suite that exists keeps existing, its sample stays the value it was created
\* with, and its custom list only grows by appending: the earlier list is a
\* prefix of the later one.
C17_SuiteOnlyGrows ==
  [][\A p \in Problems :
       files[p].exists
         => /\ files'[p].exists
            /\ files'[p].suite.sample = files[p].suite.sample
            /\ Len(files'[p].suite.custom) >= Len(files[p].suite.custom)
            /\ \A i \in 1..Len(files[p].suite.custom) :
                 i <= Len(files'[p].suite.custom)
                   => files'[p].suite.custom[i] = files[p].suite.custom[i]]_vars

\* C18: two runTests invocations that overlap in time never use the same working
\* directory (the directory the build artifact and the children live in).
C18_OverlappingRunsIsolated ==
  \A r1 \in Runs, r2 \in Runs :
    (r1 # r2 /\ run[r1].pc = "waiting" /\ run[r2].pc = "waiting")
      => \A i \in 1..Len(run[r1].spawns), j \in 1..Len(run[r2].spawns) :
           run[r1].spawns[i].cwd # run[r2].spawns[j].cwd

\* the positions at which the lines of a text start
LineStarts(s) == {1} \cup {i + 1 : i \in {j \in 1..Len(s) : s[j] = "\n"}}

\* C19: the diff of a text e with itself has one line per line of e, and every
\* one of them starts with two spaces (none starts with "- " or "+ "); its
\* lines are the lines of e behind that prefix.  (generateDiff reads nothing but
\* its two arguments, so two calls on the same texts return the same diff.)
C19_DiffOfEqualTexts ==
  (calc.pc = "diffed" /\ calc.expected = calc.actual)
    => LET d == calc.diff
           e == calc.expected
       IN  /\ Cardinality(LineStarts(d)) = Cardinality(LineStarts(e))
           /\ Len(d) = Len(e) + 2 * Cardinality(LineStarts(e))
           /\ \A k \in LineStarts(d) :
                k + 1 <= Len(d) /\ d[k] = " " /\ d[k + 1] = " "
           /\ \A k \in LineStarts(e) :
                LET n == Cardinality({j \in LineStarts(e) : j <= k})
                IN  \A i \in k..Len(e) :
                      (\A j \in k..i : e[j] # "\n") => d[i + 2 * n] = e[i]

\* a text of two lines was compared with itself
C19_Witness ==
  /\ calc.pc = "diffed"
  /\ calc.expected = <<"a", "\n", "A">>
  /\ calc.actual = calc.expected
  /\ calc.diff = <<" ", " ", "a", "\n", " ", " ", "A">>

\* C20: the verdict on an output is true exactly when the output and the
\* expected text are equal once the leading and trailing whitespace of each
\* whole text is removed; a difference in interior whitespace, in whitespace at
\* the end of an interior line, or in letter case makes it false.
C20_CompareAfterTrim ==
  calc.pc = "compared"
    => (calc.passed <=> Stripped(calc.actual) = Stripped(calc.expected))

\* texts that differ only in the whitespace around them compare equal
C20_Witness ==
  /\ calc.pc = "compared"
  /\ calc.passed
  /\ calc.actual # calc.expected
  /\ Stripped(calc.expected) # <<>>
  /\ \E i \in 1..Len(calc.actual) : calc.actual[i] \in Whitespace

\* C21: within one runTests call at most one child process is alive at a time
\* and the children are spawned in suite order: while the child of test i + 1 is
\* awaited exactly i outcomes are recorded and i + 1 children were spawned, the
\* outcomes recorded are those of the first i tests of the suite, and once the
\* call has returned every spawned child has its outcome.
C21_OneChildInSuiteOrder ==
  \A r \in Runs :
    LET plan == TestPlan(run[r].testCases)
    IN  /\ run[r].child.alive => run[r].pc = "waiting"
        /\ run[r].pc = "waiting"
             => /\ run[r].child.alive
                /\ Len(run[r].spawns) = Len(run[r].tests) + 1
                /\ Len(run[r].spawns) <= Len(plan)
        /\ run[r].pc # "waiting" => Len(run[r].spawns) \in {0, Len(run[r].tests)}
        /\ \A i \in 1..Len(run[r].tests) :
             /\ i <= Len(plan)
             /\ run[r].tests[i].testName = plan[i].testName

\* the third child of a run is awaited with two outcomes recorded
C21_Witness ==
  \E r \in Runs :
    /\ run[r].pc = "waiting"
    /\ Len(run[r].spawns) = 3
    /\ Len(run[r].tests) = 2
    /\ run[r].tests[2].testName = "custom-0"

\* C22: every spawned child has its input written to stdin and stdin closed, so
\* it sees the end of its input: also a child whose test case input is the
\* empty string.
C22_StdinAlwaysClosed ==
  \A r \in Runs : run[r].child.alive => run[r].child.stdinEnded

\* the number of lines of a text, and its n-th line (empty when there is none)
LineCount(s) == Cardinality(LineStarts(s))

NthLine(s, n) ==
  IF n > LineCount(s) THEN <<>>
  ELSE LET k == CHOOSE c \in LineStarts(s) :
                  Cardinality({j \in LineStarts(s) : j <= c}) = n
           breaks == {j \in k..Len(s) : s[j] = "\n"}
           stop == IF breaks = {} THEN Len(s) + 1
                   ELSE CHOOSE j \in breaks : \A b \in breaks : j <= b
       IN  SubSeq(s, k, stop - 1)

\* C23: the diff is index-aligned.  With m the larger of the two line counts and
\* a missing line read as the empty line, index i gives the one line "  <line>"
\* when the two lines at i are identical, and otherwise the two lines
\* "- <expected line>", "+ <actual line>" in that order; the diff has m plus the
\* number of differing indices lines, in index order.
C23_DiffIsIndexAligned ==
  calc.pc = "diffed"
    => LET e == calc.expected
           a == calc.actual
           d == calc.diff
           m == IF LineCount(e) >= LineCount(a) THEN LineCount(e) ELSE LineCount(a)
           differing == {i \in 1..m : NthLine(e, i) # NthLine(a, i)}
           pos(i) == i + Cardinality({j \in differing : j < i})
       IN  /\ LineCount(d) = m + Cardinality(differing)
           /\ \A i \in 1..m :
                IF i \in differing
                THEN /\ NthLine(d, pos(i)) = <<"-", " ">> \o NthLine(e, i)
                     /\ NthLine(d, pos(i) + 1) = <<"+", " ">> \o NthLine(a, i)
                ELSE NthLine(d, pos(i)) = <<" ", " ">> \o NthLine(e, i)

\* a line missing at the front of the output puts every later line out of step
C23_Witness ==
  /\ calc.pc = "diffed"
  /\ calc.expected = <<"a", "\n", "A">>
  /\ calc.actual = <<"A">>
  /\ calc.diff = <<"-", " ", "a", "\n", "+", " ", "A", "\n",
                   "-", " ", "A", "\n", "+", " ">>

\* C24: when the child of a test cannot be started, that test's outcome has
\* passed == false and the error of the failed start; the outcomes recorded
\* before it stay as they are and the run goes on with the next test or with
\* the report.  The child's 'close', which follows its 'error', changes nothing
\* of the run: the result of the execution is the one the first event gave.
C24_SpawnFailureOnItsOutcomeOnly ==
  [][\A r \in Runs :
       /\ (Ends(r) /\ ChildError(r))
            => /\ Len(run'[r].tests) = Len(run[r].tests) + 1
               /\ \A i \in 1..Len(run[r].tests) : run'[r].tests[i] = run[r].tests[i]
               /\ Settled(r).testName = Current(run[r]).testName
               /\ ~Settled(r).passed
               /\ Settled(r).error = "Failed to start process: ENOENT"
               /\ \/ run'[r].pc = "waiting" /\ run'[r].child.alive
                  \/ /\ run'[r].pc = "done"
                     /\ Len(run'[r].tests) = Len(TestPlan(run[r].testCases))
       /\ (run'[r].late < run[r].late /\ LateClose(r))
            => /\ run'[r].tests = run[r].tests
               /\ run'[r].summary = run[r].summary
               /\ run'[r].response = run[r].response
               /\ run'[r].pc = run[r].pc
               /\ run'[r].child = run[r].child]_vars

\* the first child could not be started, its 'close' has come as well, and the
\* second test has passed
C24_Witness ==
  \E r \in Runs :
    /\ run[r].pc = "done"
    /\ run[r].response.kind = "report"
    /\ Len(run[r].tests) = 2
    /\ HasError(run[r].tests[1])
    /\ run[r].tests[1].error = "Failed to start process: ENOENT"
    /\ run[r].tests[2].passed
    /\ run[r].late = 0

\* C30: every execution of a child gives exactly one outcome, which is final.
\* While a call is in flight the outcomes already recorded never change; a step
\* records at most one outcome, and only by ending the child that was awaited
\* (the next child is spawned or the call returns); events that arrive after
\* the execution was settled add nothing, and a response once built stays.
C30_OneFinalOutcomePerExecution ==
  [][\A r \in Runs :
       (run[r].pc # "idle" /\ run'[r].pc # "idle" /\ run[r].language \in Supported)
         => /\ Len(run'[r].tests) \in {Len(run[r].tests), Len(run[r].tests) + 1}
            /\ \A i \in 1..Len(run[r].tests) : run'[r].tests[i] = run[r].tests[i]
            /\ Len(run'[r].tests) = Len(run[r].tests) + 1
                 => /\ run[r].pc = "waiting"
                    /\ run[r].child.alive
                    /\ \/ run'[r].pc = "done"
                       \/ Len(run'[r].spawns) = Len(run[r].spawns) + 1
            /\ run[r].pc = "done" => run'[r].response = run[r].response]_vars

\* the 'close' of the first child, which could not be started, has arrived
\* while the second child runs: still one outcome
C30_Witness ==
  \E r \in Runs :
    /\ run[r].pc = "waiting"
    /\ Len(run[r].spawns) = 2
    /\ Len(run[r].tests) = 1
    /\ HasError(run[r].tests[1])
    /\ run[r].tests[1].error = "Failed to start process: ENOENT"
    /\ run[r].late = 0
    /\ run[r].child.out # <<>>

\* C25: addTestCase for a problem whose suite does not exist fails the call: the
\* caller gets an error and no suite, nothing is written, and no suite comes to
\* exist for a problem that was not created.
C25_AddToMissingSuiteFails ==
  /\ \A a \in Adders :
       (add[a].pc \in {"opening", "writing", "done"} /\ ~files[add[a].problemId].exists)
         => /\ add[a].pc = "done"
            /\ add[a].response.kind = "error"
  /\ \A p \in Problems : files[p].exists => p = "two-sum"
  /\ \A p \in Problems : ~files[p].exists => appended[p] = <<>>

C25_Witness ==
  \E a \in Adders :
    /\ add[a].pc = "done"
    /\ add[a].problemId = "ghost"
    /\ add[a].response = [kind |-> "error", error |-> "Failed to add test case: ENOENT"]
    /\ ~files["ghost"].exists

\* C26: runTests never modifies the Test Case Store.  With no addTestCase call
\* alongside, from the read of the suite to the response the persisted sample
\* and custom list are the ones the run read; and a run that failed on a
\* missing suite leaves the suite missing.
C26_RunLeavesStoreAlone ==
  \A r \in Runs :
    run[r].pc \in {"waiting", "done"}
      => LET file == files[run[r].problemId]
         IN  IF run[r].pc = "done" /\ ~Returned(run[r])
             THEN ~file.exists
             ELSE /\ file.exists
                  /\ file.suite.sample = run[r].testCases.sample
                  /\ file.suite.custom = run[r].testCases.custom

\* a run on a suite with two custom cases has answered
C26_Witness ==
  \E r \in Runs :
    /\ Returned(run[r])
    /\ Len(run[r].tests) >= 2
    /\ Len(files[run[r].problemId].suite.custom) = 2
    /\ appended[run[r].problemId] # <<>>

\* C27: a runTests that overlaps addTestCase calls on its problem works on one
\* consistent snapshot of the suite.  The read that succeeds takes the complete
\* suite the store holds at that moment, never a file that is being rewritten;
\* the run keeps that suite to its end whatever is stored meanwhile; and its
\* outcomes and details are the cases of that snapshot, the sample first if it
\* has an input, custom-i with the input and expected of the snapshot's case at
\* index i.
C27_RunReportsOneSnapshot ==
  /\ [][\A r \in Runs :
          /\ (run[r].pc = "reading" /\ run'[r].pc \in {"waiting", "done"}
                /\ ~(run'[r].pc = "done" /\ ~Returned(run'[r])))
               => /\ files[run[r].problemId].exists
                  /\ ~files[run[r].problemId].torn
                  /\ run'[r].testCases = files[run[r].problemId].suite
          /\ (run[r].pc = "waiting" /\ run'[r].pc # "idle")
               => run'[r].testCases = run[r].testCases]_vars
  /\ [](\A r \in Runs :
          LET snap == run[r].testCases
              off == IF Truthy(snap.sample.input) THEN 1 ELSE 0
          IN  /\ off = 1 /\ Len(run[r].tests) >= 1
                   => /\ run[r].tests[1].testName = "sample"
                      /\ run[r].tests[1].input = snap.sample.input
                      /\ run[r].tests[1].expected = snap.sample.expected
              /\ \A k \in (off + 1)..Len(run[r].tests) :
                   /\ k - off <= Len(snap.custom)
                   /\ run[r].tests[k].testName = CustomNames[k - off]
                   /\ run[r].tests[k].input = Get(snap.custom[k - off], "input")
                   /\ run[r].tests[k].expected = Get(snap.custom[k - off], "expected")
              /\ Returned(run[r]) /\ run[r].response.kind = "report"
                   => /\ Len(run[r].response.details) = off + Len(snap.custom)
                      /\ \A k \in 1..Len(run[r].tests) :
                           /\ run[r].response.details[k].testName = run[r].tests[k].testName
                           /\ run[r].response.details[k].input = run[r].tests[k].input
                           /\ run[r].response.details[k].expected
                                = run[r].tests[k].expected)

\* the run has reported on the suite of one custom case it read while a second
\* case was stored during the run
C27_Witness ==
  \E r \in Runs :
    /\ Returned(run[r])
    /\ run[r].response.kind = "report"
    /\ Len(run[r].testCases.custom) = 1
    /\ Len(run[r].response.details) = 2
    /\ Len(files[run[r].problemId].suite.custom) = 2

\* C28: every outcome with error set has the empty string as actual, and so has
\* its detail in the report: what a child printed before it failed to start,
\* exited with a code other than 0 or was cut off never appears.
C28_ErroredOutcomeHasNoActual ==
  \A r \in Runs :
    /\ \A i \in 1..Len(run[r].tests) :
         HasError(run[r].tests[i]) => run[r].tests[i].actual = <<>>
    /\ run[r].response.kind = "report"
         => \A i \in 1..Len(run[r].response.details) :
              HasError(run[r].response.details[i])
                => run[r].response.details[i].actual = <<>>

\* a report with a test whose child exited with code 1 after one that printed
\* its output and passed
C28_Witness ==
  \E r \in Runs :
    /\ run[r].response.kind = "report"
    /\ Len(run[r].response.details) = 2
    /\ run[r].response.details[1].passed
    /\ run[r].response.details[1].actual # <<>>
    /\ HasError(run[r].response.details[2])
    /\ run[r].response.details[2].error = "Execution failed with code 1"
    /\ run[r].response.details[2].actual = <<>>

\* C29: the diff attached to an outcome that failed without an error, computed
\* from the stored expected text as it is and the trimmed output, has at least
\* one "- " line directly followed by a "+ " line: a failed comparison never
\* gives a diff in which every line is marked identical.
C29_FailedDiffShowsDifference ==
  calc.pc = "detailed"
    => LET d == calc.diff
       IN  \E k \in LineStarts(d), n \in LineStarts(d) :
             /\ k < n
             /\ \A j \in LineStarts(d) : ~(k < j /\ j < n)
             /\ k + 1 <= Len(d) /\ d[k] = "-" /\ d[k + 1] = " "
             /\ n + 1 <= Len(d) /\ d[n] = "+" /\ d[n + 1] = " "

\* the output differs from the expected text in the letter case; the expected
\* text keeps its trailing blank in the diff, the output is trimmed
C29_Witness ==
  /\ calc.pc = "detailed"
  /\ calc.expected = <<"a", " ">>
  /\ calc.actual = <<"A", "\n">>
  /\ calc.diff = <<"-", " ", "a", " ", "\n", "+", " ", "A">>

====
